---- MODULE Spec2Model ----
(***************************************************************************)
(* Door detection service: the preprocessing / inference-sizing / result   *)
(* filtering pipeline (api/detect.py and backend/detect.py), the lazy      *)
(* model singleton (api/detect.py get_model) and the POST /detect endpoint *)
(* (backend/main.py).                                                      *)
(*                                                                         *)
(* Representation.                                                         *)
(*   Optional values: <<>> is Python's None, <<v>> is the value v.         *)
(*   An image is [width, height, pixels, drawn]: pixels is a sequence of   *)
(*   sampled <<r, g, b>> pixels, drawn the detections plotted on it.       *)
(*   Detector coordinates are floats; they are kept in tenths of a pixel   *)
(*   (xyxy = <<316, ...>> is 31.6 px), confidences in percent.             *)
(*   A class-id-to-name dict is the sequence of its (id, name) items in    *)
(*   iteration order.                                                      *)
(***************************************************************************)
EXTENDS Integers, Sequences, FiniteSets, TLC

VARIABLES
    env,        \* the deployment: [ultralytics, weights, loads]
    model,      \* backend/detect.py: the module global model, set at import
    call,       \* the last detect() call: its inputs and its outcome
    pre,        \* preprocessing harness: [stage, variant, img, once, twice]
    _model,     \* api/detect.py: the module global _model
    thr,        \* per thread: position inside get_model() and its locals
    ctor,       \* number of YOLO(...) constructions started so far
    req         \* the POST /detect request being served

vars == <<env, model, call, pre, _model, thr, ctor, req>>

-----------------------------------------------------------------------------
(* Bounds of the model *)

MaxClasses == 2     \* entries of the detector's class-name dict
MaxDet == 2         \* raw detections of one inference
MaxPixels == 1      \* sampled pixels of an image in the preprocessing harness
NumThreads == 2     \* threads calling get_model() concurrently
MaxFiles == 2       \* files of one POST /detect request

(* Program constants *)

DEFAULT_DPI == 150
LARGE_IMAGE_THRESHOLD == 2000
LARGE_IMAGE_SIZE == 3200
DEFAULT_IMAGE_SIZE == 640
BINARY_THRESHOLD == 250
BACKEND_DPI == 300
BACKEND_THRESHOLD == 240

Variants == {"api", "backend"}

None == <<>>
Some(v) == <<v>>

-----------------------------------------------------------------------------
(* Strings *)

NameSet == {"door", "Door", "DOOR", "window"}

\* str.lower() on the strings of the model
lower(s) ==
    CASE s = "Door" -> "door"
      [] s = "DOOR" -> "door"
      [] s = "PLAN.PDF" -> "plan.pdf"
      [] OTHER -> s

\* filename.lower().endswith('.pdf')
is_pdf_name(filename) == lower(filename) \in {"plan.pdf"}

-----------------------------------------------------------------------------
(* Images *)

Max(a, b) == IF a > b THEN a ELSE b

Image(w, h, px) == [width |-> w, height |-> h, pixels |-> px, drawn |-> <<>>]

NoImage == Image(0, 0, <<>>)

\* PIL convert('L'): ITU-R 601-2 luma in 16-bit fixed point, rounded
luma(p) == (p[1] * 19595 + p[2] * 38470 + p[3] * 7471 + 32768) \div 65536

\* binarize without the scaling to 255: the 0/1 mask itself
binarize_as_unscaled(gray, threshold) == IF gray > threshold THEN 1 ELSE 0
\* (gray > threshold).astype(uint8) * 255
binarize(gray, threshold) == (IF gray > threshold THEN 1 ELSE 0) * 255

\* Image.fromarray(img_data).convert('RGB'): an L image becomes three equal channels
gray_to_rgb(v) == <<v, v, v>>

threshold_image(img, threshold) ==
    [img EXCEPT !.pixels =
        [i \in 1..Len(img.pixels) |->
            gray_to_rgb(binarize(luma(img.pixels[i]), threshold))]]

\* api/detect.py _preprocess_image
preprocess_image(img) == threshold_image(img, BINARY_THRESHOLD)

\* backend/detect.py detect(), the inline preprocessing (the erosion passes are
\* commented out in the source)
backend_preprocess(img) == threshold_image(img, BACKEND_THRESHOLD)

preprocess(variant, img) ==
    IF variant = "api" THEN preprocess_image(img) ELSE backend_preprocess(img)

-----------------------------------------------------------------------------
(* Files and loading *)

\* convert_from_bytes(content, dpi): a page given in inches becomes dpi pixels per inch
rasterize(page, dpi) == Image(page.width * dpi, page.height * dpi, page.pixels)

dpi_of(variant) == IF variant = "api" THEN DEFAULT_DPI ELSE BACKEND_DPI

\* _load_image: [ok, img]. A PDF name goes to convert_from_bytes (which raises on
\* bytes that are no PDF; images[0] raises on a PDF without pages), any other name to
\* Image.open (which raises on bytes that are no image).
load_image(file, variant) ==
    IF is_pdf_name(file.filename)
    THEN IF file.kind = "pdf"
         THEN [ok |-> TRUE, img |-> rasterize(file.img, dpi_of(variant))]
         ELSE [ok |-> FALSE, img |-> NoImage]
    ELSE IF file.kind = "image"
         THEN [ok |-> TRUE, img |-> file.img]
         ELSE [ok |-> FALSE, img |-> NoImage]

White == <<255, 255, 255>>
Paper == <<252, 251, 248>>
Faint == <<245, 245, 245>>
Ink == <<20, 20, 20>>

GoodFiles ==
    { [filename |-> "plan.png", kind |-> "image", img |-> Image(640, 480, <<White, Ink>>)],
      [filename |-> "unknown", kind |-> "image", img |-> Image(2000, 1500, <<Faint>>)],
      [filename |-> "plan.png", kind |-> "image", img |-> Image(1500, 2001, <<Paper>>)],
      [filename |-> "plan.png", kind |-> "image", img |-> Image(2001, 2001, <<Ink>>)],
      [filename |-> "PLAN.PDF", kind |-> "pdf", img |-> Image(8, 10, <<Faint, Ink>>)],
      [filename |-> "plan.pdf", kind |-> "pdf", img |-> Image(14, 10, <<White>>)] }

BadFiles ==
    { [filename |-> "plan.png", kind |-> "garbage", img |-> NoImage],
      [filename |-> "plan.pdf", kind |-> "garbage", img |-> NoImage],
      [filename |-> "plan.pdf", kind |-> "emptypdf", img |-> NoImage],
      [filename |-> "unknown", kind |-> "pdf", img |-> Image(8, 10, <<White>>)] }

Files == GoodFiles \cup BadFiles

-----------------------------------------------------------------------------
(* Inference size *)

\* select_imgsz with the comparison written >= instead of >
select_imgsz_as_inclusive(img) ==
    IF Max(img.width, img.height) >= LARGE_IMAGE_THRESHOLD
    THEN LARGE_IMAGE_SIZE ELSE DEFAULT_IMAGE_SIZE

\* api/detect.py: imgsz = LARGE_IMAGE_SIZE if max(w, h) > LARGE_IMAGE_THRESHOLD else DEFAULT_IMAGE_SIZE
select_imgsz(img) ==
    IF Max(img.width, img.height) > LARGE_IMAGE_THRESHOLD
    THEN LARGE_IMAGE_SIZE ELSE DEFAULT_IMAGE_SIZE

\* backend/detect.py: imgsz = 3200 if max(img_width, img_height) > 2000 else 640
backend_select_imgsz(img) ==
    IF Max(img.width, img.height) > 2000 THEN 3200 ELSE 640

-----------------------------------------------------------------------------
(* The detector (external): what model(img, imgsz) hands back *)

\* int(v) of a non-negative float kept in tenths (boxes are clipped to the image)
to_int(v) == v \div 10

RawGeoms ==
    { [xyxy |-> <<100, 100, 500, 600>>, conf |-> 90],
      [xyxy |-> <<316, 204, 1014, 899>>, conf |-> 35] }

\* class-name dicts {0: n0, 1: n1, ...} with up to k classes
NameMaps(k) ==
    UNION { { [i \in 1..n |-> <<i - 1, f[i]>>] : f \in [1..n -> NameSet] } : n \in 0..k }

RawBoxes(names) ==
    { [cls |-> c, xyxy |-> g.xyxy, conf |-> g.conf] : c \in 0..(Len(names) - 1), g \in RawGeoms }

BoxSeqs(names, d) ==
    UNION { [1..n -> RawBoxes(names)] : n \in 0..d }

\* results is empty
NoResults == [results |-> FALSE, names |-> <<>>, hasBoxes |-> FALSE, boxes |-> <<>>]

\* results[0], with result.boxes None or a (possibly empty) Boxes object
DetectorOutputs(k, d) ==
    {NoResults}
    \cup { [results |-> TRUE, names |-> nm, hasBoxes |-> FALSE, boxes |-> <<>>] : nm \in NameMaps(k) }
    \cup UNION { { [results |-> TRUE, names |-> nm, hasBoxes |-> TRUE, boxes |-> bs]
                   : bs \in BoxSeqs(nm, d) } : nm \in NameMaps(k) }

-----------------------------------------------------------------------------
(* Result filter and box serializer, api/detect.py _extract_door_boxes *)

\* name_is_door without the lower(): a case-sensitive comparison
name_is_door_as_case_sensitive(name) == name = "door"
\* name.lower() == 'door'
name_is_door(name) == lower(name) = "door"

RECURSIVE first_door(_, _)
first_door(items, i) ==
    IF i > Len(items) THEN None
    ELSE IF name_is_door(items[i][2]) THEN Some(items[i][1])
    ELSE first_door(items, i + 1)

\* door_class_id with 0 instead of None as the default of next()
door_class_id_as_default_zero(class_names) ==
    IF first_door(class_names, 1) = None THEN Some(0) ELSE first_door(class_names, 1)
\* next((cid for cid, name in class_names.items() if name.lower() == 'door'), None)
door_class_id(class_names) == first_door(class_names, 1)

\* result.boxes.cls == door_class_id
door_mask(boxes, cid) == [i \in 1..Len(boxes) |-> Some(boxes[i].cls) = cid]

mask_any(mask) == \E i \in 1..Len(mask) : mask[i]

RECURSIVE index_mask(_, _, _)
index_mask(boxes, mask, i) ==
    IF i > Len(boxes) THEN <<>>
    ELSE (IF mask[i] THEN <<boxes[i]>> ELSE <<>>) \o index_mask(boxes, mask, i + 1)

\* result.boxes[door_mask]
filter_boxes(boxes, mask) == index_mask(boxes, mask, 1)

\* box_record with the corner x2, y2 where the extent x2 - x1, y2 - y1 belongs
box_record_as_corner(box) ==
    [x |-> to_int(box.xyxy[1]), y |-> to_int(box.xyxy[2]),
     width |-> to_int(box.xyxy[3]), height |-> to_int(box.xyxy[4]),
     className |-> "Door", confidence |-> box.conf]
\* the body of the for loop: one serialized box
box_record(box) ==
    LET x1 == to_int(box.xyxy[1])
        y1 == to_int(box.xyxy[2])
        x2 == to_int(box.xyxy[3])
        y2 == to_int(box.xyxy[4])
    IN  [x |-> x1, y |-> y1, width |-> x2 - x1, height |-> y2 - y1,
         className |-> "Door", confidence |-> box.conf]

\* _extract_door_boxes(result): the returned list and result as the call leaves it
extract_door_boxes(result) ==
    IF ~result.hasBoxes \/ Len(result.boxes) = 0
    THEN [boxes_data |-> <<>>, result |-> result]
    ELSE LET cid == door_class_id(result.names)
             mask == door_mask(result.boxes, cid)
             filtered == filter_boxes(result.boxes, mask)
         IN  IF cid = None THEN [boxes_data |-> <<>>, result |-> result]
             ELSE IF ~mask_any(mask) THEN [boxes_data |-> <<>>, result |-> result]
             ELSE [boxes_data |-> [i \in 1..Len(filtered) |-> box_record(filtered[i])],
                   result |-> [result EXCEPT !.boxes = filtered]]

-----------------------------------------------------------------------------
(* The same filter as backend/detect.py detect() inlines it *)

RECURSIVE backend_first_door(_, _)
\* for class_id, class_name in class_names.items(): if ...lower() == 'door': ...; break
backend_first_door(items, i) ==
    IF i > Len(items) THEN None
    ELSE IF lower(items[i][2]) = "door" THEN Some(items[i][1])
    ELSE backend_first_door(items, i + 1)

\* x1, y1, x2, y2 = xyxy.astype(int); one appended box
backend_box_record(box) ==
    LET x1 == to_int(box.xyxy[1])
        y1 == to_int(box.xyxy[2])
        x2 == to_int(box.xyxy[3])
        y2 == to_int(box.xyxy[4])
    IN  [x |-> x1, y |-> y1, width |-> x2 - x1, height |-> y2 - y1,
         className |-> "Door", confidence |-> box.conf]

backend_filter(result) ==
    IF result.hasBoxes /\ Len(result.boxes) > 0
    THEN LET cid == backend_first_door(result.names, 1)
             mask == [i \in 1..Len(result.boxes) |-> Some(result.boxes[i].cls) = cid]
             filtered == index_mask(result.boxes, mask, 1)
         IN  IF cid # None
             THEN IF \E i \in 1..Len(mask) : mask[i]
                  THEN [boxes_data |-> [i \in 1..Len(filtered) |-> backend_box_record(filtered[i])],
                        result |-> [result EXCEPT !.boxes = filtered]]
                  ELSE [boxes_data |-> <<>>, result |-> result]
             ELSE [boxes_data |-> <<>>, result |-> result]
    ELSE [boxes_data |-> <<>>, result |-> result]

\* result.plot(): the image with result.boxes drawn on it, channels in BGR order
plot(img, result) ==
    [img EXCEPT !.pixels = [i \in 1..Len(img.pixels) |->
                               <<img.pixels[i][3], img.pixels[i][2], img.pixels[i][1]>>],
                !.drawn = result.boxes]

\* Image.fromarray(arr[:, :, ::-1]): the channel order reversed
flip_channels(img) ==
    [img EXCEPT !.pixels = [i \in 1..Len(img.pixels) |->
                               <<img.pixels[i][3], img.pixels[i][2], img.pixels[i][1]>>]]

-----------------------------------------------------------------------------
(* The model singleton, run to completion by one caller *)

Envs == [ultralytics : BOOLEAN, weights : BOOLEAN, loads : BOOLEAN]

\* api/detect.py get_model(): the value of _model when the call returns
get_model(m, e, fresh) ==
    IF m = None /\ e.ultralytics /\ e.weights
    THEN IF e.loads THEN Some(fresh) ELSE m
    ELSE m

\* backend/detect.py: the module-level load at import
backend_import(e) ==
    IF e.ultralytics /\ e.weights
    THEN IF e.loads THEN Some(1) ELSE None
    ELSE None

-----------------------------------------------------------------------------
(* detect() *)

Returned(annotated, original, boxes, imgsz, inferred, plotted) ==
    [outcome |-> "return", exc |-> "", annotated |-> annotated, original |-> original,
     boxes |-> boxes, imgsz |-> imgsz, inferred |-> inferred, plotted |-> plotted]

Raised(exc) ==
    [outcome |-> "raise", exc |-> exc, annotated |-> NoImage, original |-> NoImage,
     boxes |-> <<>>, imgsz |-> 0, inferred |-> FALSE, plotted |-> FALSE]

\* degraded without an annotated image
degraded_as_no_annotated(img, imgsz) == Returned(NoImage, img, <<>>, imgsz, FALSE, FALSE)
\* api/detect.py: the model is None: return img, img, []
degraded(img, imgsz) == Returned(img, img, <<>>, imgsz, FALSE, FALSE)

\* api/detect.py detect(file_content, filename), with m the value get_model() returned
\* and out what the detector returns if it is invoked
detect(file, m, out) ==
    LET ld == load_image(file, "api")
        img == preprocess_image(ld.img)
        imgsz == select_imgsz(img)
        ext == extract_door_boxes(out)
        annotated == flip_channels(plot(img, ext.result))
    IN  IF ~ld.ok THEN Raised("ValueError")
        ELSE IF m # None
        THEN IF out.results
             THEN Returned(annotated, img, ext.boxes_data, imgsz, TRUE, TRUE)
             ELSE Returned(img, img, <<>>, imgsz, TRUE, FALSE)
        ELSE degraded(img, imgsz)

\* backend/detect.py detect(file_content, filename), with m the module global model
backend_detect(file, m, out) ==
    LET ld == load_image(file, "backend")
        img == backend_preprocess(ld.img)
        imgsz == backend_select_imgsz(img)
        ext == backend_filter(out)
        result_img == flip_channels(plot(img, ext.result))
    IN  IF ~ld.ok THEN Raised("Exception")
        ELSE IF m # None
        THEN IF out.results
             THEN Returned(result_img, img, ext.boxes_data, imgsz, TRUE, TRUE)
             ELSE Returned(img, img, <<>>, imgsz, TRUE, FALSE)
        ELSE Returned(img, img, <<>>, imgsz, FALSE, FALSE)

-----------------------------------------------------------------------------
(* Specification Spec: one call of detect() in one deployment, observed as it returns *)

Idle == [stage |-> "idle"]

NoRequest == [stage |-> "none", files |-> <<>>, next |-> 1, detected |-> <<>>,
              results |-> <<>>, status |-> 0]

NoThreads == [t \in 1..NumThreads |-> [pc |-> "idle", inst |-> None, ret |-> None]]

Init ==
    /\ env \in Envs
    /\ _model = None
    /\ model = backend_import(env)
    /\ call = None
    /\ ctor = 0
    /\ pre = Idle
    /\ thr = NoThreads
    /\ req = NoRequest

\* the detector hands something back only if it is invoked: the file loads and the
\* model is there
AllOutputs == DetectorOutputs(MaxClasses, MaxDet)

Outputs(variant, file, m) ==
    IF load_image(file, variant).ok /\ m # None THEN AllOutputs ELSE {NoResults}

\* what the call record keeps of the detector's output: nothing when it never ran
Seen(res, out) == IF res.inferred THEN out ELSE NoResults

\* an earlier request reached get_model(): all it leaves behind is _model
EarlierGetModel ==
    LET m == get_model(_model, env, ctor + 1)
    IN  /\ call = None
        /\ m # _model
        /\ _model' = m
        /\ ctor' = ctor + 1
        /\ UNCHANGED <<env, model, call, pre, thr, req>>

ApiDetect ==
    /\ call = None
    /\ \E file \in Files :
       \E out \in Outputs("api", file, get_model(_model, env, ctor + 1)) :
           LET m == get_model(_model, env, ctor + 1)
               res == detect(file, m, out)
           IN  /\ _model' = m
               /\ ctor' = IF m # _model THEN ctor + 1 ELSE ctor
               /\ call' = Some([variant |-> "api", file |-> file, model |-> m,
                                out |-> Seen(res, out), res |-> res])
               /\ UNCHANGED <<env, model, pre, thr, req>>

BackendDetect ==
    /\ call = None
    /\ \E file \in Files :
       \E out \in Outputs("backend", file, model) :
           LET res == backend_detect(file, model, out)
           IN  /\ call' = Some([variant |-> "backend", file |-> file, model |-> model,
                                out |-> Seen(res, out), res |-> res])
               /\ UNCHANGED <<env, model, _model, ctor, pre, thr, req>>

Next == EarlierGetModel \/ ApiDetect \/ BackendDetect

Spec == Init /\ [][Next]_vars

-----------------------------------------------------------------------------
(* Properties of detect(), checked under Spec *)

DoorSpellings == {"door", "Door", "DOOR"}

\* the call has returned after running the detector and filtering its result
FilterRan == call # None /\ call[1].res.outcome = "return" /\ call[1].res.plotted

\* positions of the class-name dict that carry a door name
DoorPositions(names) == {k \in DOMAIN names : names[k][2] \in DoorSpellings}

\* the position of class id cid in the dict
PositionOf(names, cid) == (CHOOSE k \in DOMAIN names : names[k][1] = cid)

\* indices of the raw detections whose class name is a door name
DoorNamed(out) ==
    IF ~out.hasBoxes THEN {}
    ELSE {j \in DOMAIN out.boxes : out.names[PositionOf(out.names, out.boxes[j].cls)][2] \in DoorSpellings}

\* indices of the raw detections of the first door-named class of the dict
FirstDoorClass(out) ==
    IF ~out.hasBoxes \/ DoorPositions(out.names) = {} THEN {}
    ELSE LET k == CHOOSE k \in DoorPositions(out.names) :
                      \A l \in DoorPositions(out.names) : k <= l
         IN  {j \in DOMAIN out.boxes : out.boxes[j].cls = out.names[k][1]}

\* the i-th smallest element of a set of indices
Nth(D, i) == CHOOSE j \in D : Cardinality({k \in D : k < j}) = i - 1

\* C1 as claimed: the filter returns exactly as many boxes as there are raw detections
\* whose class name is "door" in any case, also when several class ids carry such a name
C1_AllDoorNamedCounted ==
    FilterRan => Len(call[1].res.boxes) = Cardinality(DoorNamed(call[1].out))

\* C1 as amended: the filter returns exactly as many boxes as there are raw detections
\* of the first class id (in the dict's order) whose name is "door" in any case; when at
\* most one class id carries such a name, that is every door-named detection
C1_FirstDoorClassCounted ==
    FilterRan =>
        /\ Len(call[1].res.boxes) = Cardinality(FirstDoorClass(call[1].out))
        /\ Cardinality(DoorPositions(call[1].out.names)) <= 1
               => Len(call[1].res.boxes) = Cardinality(DoorNamed(call[1].out))

C1_Witness ==
    /\ FilterRan
    /\ \E k \in DOMAIN call[1].out.names : call[1].out.names[k][2] \in {"Door", "DOOR"}
    /\ Len(call[1].res.boxes) >= 1
    /\ Len(call[1].out.boxes) > Len(call[1].res.boxes)

\* C2: the inference size is 640 when max(width, height) <= 2000 and 3200 when it is
\* larger, and the detector is never invoked with any other size
C2_InferenceSize ==
    (call # None /\ call[1].res.outcome = "return") =>
        LET r == call[1].res
            big == IF r.original.width > r.original.height
                   THEN r.original.width ELSE r.original.height
        IN  /\ big <= 2000 => r.imgsz = 640
            /\ big > 2000 => r.imgsz = 3200
            /\ r.inferred => r.imgsz \in {640, 3200}

C2_Witness ==
    /\ call # None
    /\ call[1].res.inferred
    /\ call[1].res.original.width = 2000
    /\ call[1].res.original.height <= 2000
    /\ call[1].res.imgsz = 640

\* C3: with no model (dependency missing, weights absent or loading failed) a decodable
\* file makes detect() return, without inference, the preprocessed image as annotated
\* and as original, and no boxes
C3_DegradedMode ==
    (call # None /\ call[1].model = None /\ call[1].file \in GoodFiles) =>
        LET r == call[1].res
        IN  /\ r.outcome = "return"
            /\ ~r.inferred
            /\ r.original = preprocess(call[1].variant,
                                       load_image(call[1].file, call[1].variant).img)
            /\ r.annotated = r.original
            /\ r.boxes = <<>>

C3_Witness ==
    /\ call # None
    /\ call[1].model = None
    /\ call[1].file \in GoodFiles
    /\ env.ultralytics /\ ~env.weights
    /\ call[1].res.annotated.pixels # call[1].file.img.pixels

\* C4: when no class of the detector's dict is named "door" in any case, the box list
\* is empty and detect() returns
C4_NoDoorClass ==
    (call # None /\ call[1].res.inferred /\ call[1].out.results
        /\ DoorPositions(call[1].out.names) = {}) =>
        /\ call[1].res.outcome = "return"
        /\ call[1].res.boxes = <<>>

C4_Witness ==
    /\ FilterRan
    /\ call[1].out.names # <<>>
    /\ DoorPositions(call[1].out.names) = {}
    /\ Len(call[1].out.boxes) >= 2

\* C7: the i-th returned box is the i-th door-class detection in detector order, with
\* x = x1, y = y1, width = x2 - x1, height = y2 - y1 (x1.. the integer pixel
\* coordinates), className "Door" and the detector's confidence
C7_OrderAndGeometry ==
    FilterRan =>
        LET D == FirstDoorClass(call[1].out)
            b == call[1].res.boxes
        IN  /\ Len(b) = Cardinality(D)
            /\ \A i \in DOMAIN b :
                  LET raw == call[1].out.boxes[Nth(D, i)]
                      x1 == raw.xyxy[1] \div 10
                      y1 == raw.xyxy[2] \div 10
                      x2 == raw.xyxy[3] \div 10
                      y2 == raw.xyxy[4] \div 10
                  IN  b[i] = [x |-> x1, y |-> y1, width |-> x2 - x1, height |-> y2 - y1,
                              className |-> "Door", confidence |-> raw.conf]

C7_Witness ==
    /\ FilterRan
    /\ Len(call[1].res.boxes) = 2
    /\ call[1].res.boxes[1].x > call[1].res.boxes[2].x
    /\ call[1].res.boxes[1].width = 70

\* C10 as claimed: the detections drawn on the annotated image are exactly the
\* detections of the returned box list
C10_DrawnAreReturned ==
    FilterRan => Len(call[1].res.annotated.drawn) = Len(call[1].res.boxes)

-----------------------------------------------------------------------------
(* Specification SpecPreprocess: the preprocessing applied to an RGB image, and then *)
(* to its own output *)

ChannelValues == {0, 240, 241, 250, 251, 255}

Pixels == ChannelValues \X ChannelValues \X ChannelValues

\* the pixel sequences of the RGB images with n sampled pixels
PixelSeqs(n) == [1..n -> Pixels]

InitPreprocess ==
    /\ env = [ultralytics |-> FALSE, weights |-> FALSE, loads |-> FALSE]
    /\ _model = None
    /\ model = None
    /\ call = None
    /\ ctor = 0
    /\ thr = NoThreads
    /\ req = NoRequest
    /\ \E v \in Variants, n \in 1..MaxPixels :
       \E px \in PixelSeqs(n) :
           pre = [stage |-> "input", variant |-> v, img |-> Image(n, 1, px),
                  once |-> NoImage, twice |-> NoImage]

PreprocessOnce ==
    /\ pre.stage = "input"
    /\ pre' = [pre EXCEPT !.stage = "once", !.once = preprocess(pre.variant, pre.img)]
    /\ UNCHANGED <<env, model, call, _model, thr, ctor, req>>

PreprocessAgain ==
    /\ pre.stage = "once"
    /\ pre' = [pre EXCEPT !.stage = "twice", !.twice = preprocess(pre.variant, pre.once)]
    /\ UNCHANGED <<env, model, call, _model, thr, ctor, req>>

NextPreprocess == PreprocessOnce \/ PreprocessAgain

SpecPreprocess == InitPreprocess /\ [][NextPreprocess]_vars

\* C9: every pixel of the preprocessed image is 255 in all three channels when its
\* luminance exceeds the threshold and 0 in all three otherwise, and preprocessing the
\* preprocessed image gives the same image back
C9_TwoLevelIdempotent ==
    LET t == IF pre.variant = "api" THEN 250 ELSE 240
    IN  /\ pre.stage \in {"once", "twice"} =>
              /\ Len(pre.once.pixels) = Len(pre.img.pixels)
              /\ \A i \in DOMAIN pre.once.pixels :
                     LET p == pre.img.pixels[i]
                         l == (p[1] * 19595 + p[2] * 38470 + p[3] * 7471 + 32768) \div 65536
                     IN  pre.once.pixels[i] = IF l > t THEN <<255, 255, 255>> ELSE <<0, 0, 0>>
        /\ pre.stage = "twice" => pre.twice = pre.once

C9_Witness ==
    /\ pre.stage = "twice"
    /\ pre.img.pixels[1] = <<251, 255, 240>>
    /\ pre.once.pixels[1] = <<255, 255, 255>>
    /\ pre.twice = pre.once

-----------------------------------------------------------------------------
(* Specification SpecGetModel: threads inside api/detect.py get_model() at once *)

Threads == 1..NumThreads

InitGetModel ==
    /\ env \in Envs
    /\ _model = None
    /\ model = None
    /\ call = None
    /\ ctor = 0
    /\ thr = NoThreads
    /\ req = NoRequest
    /\ pre = Idle

\* if _model is None and ULTRALYTICS_AVAILABLE and MODEL_PATH.exists():
TestModel(t) ==
    /\ thr[t].pc = "idle"
    /\ thr' = [thr EXCEPT ![t].pc =
                  IF _model = None /\ env.ultralytics /\ env.weights
                  THEN "construct" ELSE "return"]
    /\ UNCHANGED <<env, model, call, pre, _model, ctor, req>>

\* YOLO(str(MODEL_PATH)): a new instance, or an exception that is logged
Construct(t) ==
    /\ thr[t].pc = "construct"
    /\ ctor' = ctor + 1
    /\ thr' = IF env.loads
              THEN [thr EXCEPT ![t].pc = "assign", ![t].inst = Some(ctor + 1)]
              ELSE [thr EXCEPT ![t].pc = "return"]
    /\ UNCHANGED <<env, model, call, pre, _model, req>>

\* _model = <the new instance>
Assign(t) ==
    /\ thr[t].pc = "assign"
    /\ _model' = thr[t].inst
    /\ thr' = [thr EXCEPT ![t].pc = "return"]
    /\ UNCHANGED <<env, model, call, pre, ctor, req>>

\* return _model
Return(t) ==
    /\ thr[t].pc = "return"
    /\ thr' = [thr EXCEPT ![t].pc = "done", ![t].ret = _model]
    /\ UNCHANGED <<env, model, call, pre, _model, ctor, req>>

NextGetModel ==
    \E t \in Threads : TestModel(t) \/ Construct(t) \/ Assign(t) \/ Return(t)

SpecGetModel == InitGetModel /\ [][NextGetModel]_vars

\* C8 as claimed: the model constructor runs at most once, and all callers of
\* get_model() that receive a model receive the same instance
C8_InitializedOnce ==
    /\ ctor <= 1
    /\ \A t, u \in Threads :
           (thr[t].pc = "done" /\ thr[u].pc = "done" /\ thr[t].ret # None /\ thr[u].ret # None)
               => thr[t].ret = thr[u].ret

-----------------------------------------------------------------------------
(* Specification SpecEndpoint: backend/main.py POST /detect, which imports detect *)
(* from backend/detect.py *)

\* the uploads of a request; an upload may come without a filename ("")
Uploads ==
    { [filename |-> "plan.png", kind |-> "image", img |-> Image(640, 480, <<White, Ink>>)],
      [filename |-> "", kind |-> "image", img |-> Image(2001, 2001, <<Faint>>)],
      [filename |-> "PLAN.PDF", kind |-> "pdf", img |-> Image(8, 10, <<Paper>>)],
      [filename |-> "plan.png", kind |-> "garbage", img |-> NoImage],
      [filename |-> "plan.pdf", kind |-> "emptypdf", img |-> NoImage] }

Requests == UNION { [1..n -> Uploads] : n \in 0..MaxFiles }

EndpointOutputs == DetectorOutputs(1, 1)

\* file.filename or "unknown"
filename_or_unknown(filename) == IF filename = "" THEN "unknown" ELSE filename

\* annotated.save(buf, format="PNG"); base64.b64encode(...); the data URL
data_url(img) == [scheme |-> "data:image/png;base64", png |-> img]

InitEndpoint ==
    /\ env \in Envs
    /\ model = backend_import(env)
    /\ _model = None
    /\ call = None
    /\ ctor = 0
    /\ thr = NoThreads
    /\ pre = Idle
    /\ req = NoRequest

\* the request arrives; if not files: raise HTTPException(status_code=400)
Receive ==
    /\ req.stage = "none"
    /\ \E files \in Requests :
           req' = IF Len(files) = 0
                  THEN [NoRequest EXCEPT !.stage = "responded", !.status = 400]
                  ELSE [NoRequest EXCEPT !.stage = "processing", !.files = files]
    /\ UNCHANGED <<env, model, call, pre, _model, thr, ctor>>

\* one iteration of "for file in files": detect() and the except clauses
ProcessFile ==
    /\ req.stage = "processing"
    /\ req.next <= Len(req.files)
    /\ LET file == req.files[req.next]
           arg == [file EXCEPT !.filename = filename_or_unknown(file.filename)]
       IN  \E out \in (IF load_image(arg, "backend").ok /\ model # None
                       THEN EndpointOutputs ELSE {NoResults}) :
               LET res == backend_detect(arg, model, out)
                   seen == Append(req.detected, req.next)
               IN  req' =
                     IF res.outcome = "return"
                     THEN [req EXCEPT !.next = req.next + 1,
                                      !.detected = seen,
                                      !.results = Append(req.results,
                                          [filename |-> file.filename,
                                           image |-> data_url(res.annotated),
                                           original_image |-> data_url(res.original),
                                           boxes |-> res.boxes])]
                     ELSE IF res.exc = "ValueError"
                     THEN [req EXCEPT !.stage = "responded", !.detected = seen, !.status = 422]
                     ELSE [req EXCEPT !.stage = "responded", !.detected = seen, !.status = 500]
    /\ UNCHANGED <<env, model, call, pre, _model, thr, ctor>>

\* return {"images": results}
Respond ==
    /\ req.stage = "processing"
    /\ req.next > Len(req.files)
    /\ req' = [req EXCEPT !.stage = "responded", !.status = 200]
    /\ UNCHANGED <<env, model, call, pre, _model, thr, ctor>>

NextEndpoint == Receive \/ ProcessFile \/ Respond

SpecEndpoint == InitEndpoint /\ [][NextEndpoint]_vars

\* C5 as claimed: a failing file does not abort its siblings: when the request has been
\* answered, every file of it has been passed to detect()
C5_SiblingsProcessed ==
    req.stage = "responded" => Len(req.detected) = Len(req.files)

\* C6 as claimed: a file whose bytes are no valid image or PDF, or a PDF without pages,
\* is answered with 422, not with 500
C6_BadInputIs422 ==
    (/\ req.stage = "responded"
     /\ req.detected # <<>>
     /\ req.files[req.detected[Len(req.detected)]].kind \in {"garbage", "emptypdf"})
        => req.status = 422

====
